---- MODULE Spec2Model ----
(***************************************************************************)
(* Model of package closer (src/closer.go): a tree of closers, each with   *)
(* a closing and a closed channel, a mutex, a list of close functions, a   *)
(* list of children, a wait group and a two-way flag.  Goroutines call the *)
(* public methods concurrently; every method is cut into steps at the      *)
(* points where another goroutine can observe or interfere (mutex          *)
(* acquisition, channel close, wait group wait, calls into other closers). *)
(***************************************************************************)
EXTENDS Integers, Sequences, FiniteSets, TLC

\* ---------------------------------------------------------------- bounds
MaxNodes == 3
NumTasks == 2
MaxFuncs == 2
MaxWait == 1
MaxCalls == 4
MaxWorkers == 2

Nodes == 1..MaxNodes
Tasks == 1..NumTasks
Workers == (NumTasks + 1)..(NumTasks + MaxWorkers)
Procs == Tasks \cup Workers
Root == 1
NoNode == 0
NoTask == 0

VARIABLES
    nnodes,       \* number of closers allocated by newCloser so far
    parent,       \* closer.parent (NoNode = nil)
    twoWay,       \* closer.twoWay
    children,     \* closer.children
    funcs,        \* closer.funcs: the ids of the registered functions
    closingChan,  \* TRUE iff closer.closingChan has been closed
    closedChan,   \* TRUE iff closer.closedChan has been closed
    closeErr,     \* closer.closeErr: sequence of errors, <<>> = nil
    mutex,        \* closer.mutex: the task holding it, NoTask if free
    wg,           \* closer.wg: the wait group counter
    stack,        \* per goroutine: the call stack of method frames
    panicked,     \* a goroutine panicked (the process is gone)
    ncalls,       \* number of method calls the goroutines have made
    \* history variables, written but never read by the program's steps
    nreg,         \* number of close functions ever registered on a node
    log,          \* ids of the close functions invoked on a node, in order
    rets,         \* values returned by the Close() calls on a node
    direct,       \* nodes on which a goroutine called Close/CloseAndDone
    atClose,      \* snapshot taken when the closing channel is closed
    added,        \* units ever added with AddWaitGroup
    doneCalls,    \* number of wg.Done() calls made
    failed,       \* ids of the close functions that returned an error
    ctor,         \* number of functions passed to New/OneWay/TwoWay
    \* state of the methods that the tests of closer/v3 call and that
    \* closer.go does not have: they are modelled from the specification
    closingFuncs, \* the closing hook list (OnClosing): the ids of the hooks
    creg,         \* number of closing hooks ever registered on a node
    sentinel,     \* the error injected with CloseWithErr, <<>> = none
    injected,     \* history: the errors ever passed to CloseWithErr
    ctx,          \* the handle of Context(): "none", "live" or "canceled"
    started,      \* history: number of RunCloserRoutine functions started
    atClosing     \* history: creg when the closing signal fired

prog == <<nnodes, parent, twoWay, children, funcs, closingChan, closedChan,
          closeErr, mutex, wg, stack, panicked, ncalls>>
hist == <<nreg, log, rets, direct, atClose, added, doneCalls, failed, ctor>>
prog_but_stack == <<nnodes, parent, twoWay, children, funcs, closingChan,
                   closedChan, closeErr, mutex, wg, panicked, ncalls>>
ext == <<closingFuncs, creg, sentinel, injected, ctx, started, atClosing>>
vars == <<prog, hist, ext>>

\* ------------------------------------------------------------- helpers
\* The argument lists f ...CloseFunc of New/OneWay/TwoWay/OnClose are
\* represented by their length; what a close function returns is decided
\* when it runs.
MaxArgs == 1
FuncArgs == 0..MaxArgs

\* The error returned by the close function id of node n.
ErrOf(n, id) == <<n, id>>

\* The registered functions: ids continue the node's registration count.
MkFuncs(from, nf) == [k \in 1..nf |-> from + k]

Top(t) == stack[t][Len(stack[t])]
Pop(s) == SubSeq(s, 1, Len(s) - 1)
Running(t) == stack[t] # <<>>
Idle(t) == stack[t] = <<>>

Frame(op, c, pc, i, arg) ==
    [op |-> op, c |-> c, pc |-> pc, i |-> i, mErr |-> <<>>, arg |-> arg,
     drv |-> FALSE]

SetTop(t, f) == [stack EXCEPT ![t] = Append(Pop(@), f)]

\* A closer a goroutine can hold a reference to: the root, or a child that
\* addChild has returned.
Published(n) ==
    /\ n <= nnodes
    /\ IF n = Root
         THEN TRUE
         ELSE \E k \in 1..Len(children[parent[n]]) : children[parent[n]][k] = n

\* Goroutine t may make a method call on closer n: it is outside any
\* method, it holds a reference to n, and the run has calls left.  Idle
\* goroutines are interchangeable, so the lowest one makes the call.
CanCall(t, n) ==
    /\ ~panicked /\ Idle(t) /\ Published(n)
    /\ ncalls < MaxCalls
    /\ \A u \in 1..(t - 1) : Running(u)

\* closer.IsClosing / closer.IsClosed
IsClosing(n) == closingChan[n]
IsClosed(n) == closedChan[n]

\* ---------------------------------------------------------------- Init
\* New(f...): one root closer, all other slots unallocated.
Init ==
    /\ nnodes = 1
    /\ parent = [n \in Nodes |-> NoNode]
    /\ twoWay = [n \in Nodes |-> FALSE]
    /\ children = [n \in Nodes |-> <<>>]
    /\ \E fs \in FuncArgs :
          /\ funcs = [n \in Nodes |-> IF n = Root THEN MkFuncs(0, fs) ELSE <<>>]
          /\ nreg = [n \in Nodes |-> IF n = Root THEN fs ELSE 0]
          /\ ctor = [n \in Nodes |-> IF n = Root THEN fs ELSE 0]
    /\ closingChan = [n \in Nodes |-> FALSE]
    /\ closedChan = [n \in Nodes |-> FALSE]
    /\ closeErr = [n \in Nodes |-> <<>>]
    /\ mutex = [n \in Nodes |-> NoTask]
    /\ wg = [n \in Nodes |-> 0]
    /\ stack = [t \in Procs |-> <<>>]
    /\ panicked = FALSE
    /\ ncalls = 0
    /\ log = [n \in Nodes |-> <<>>]
    /\ rets = [n \in Nodes |-> {}]
    /\ direct = {}
    /\ atClose = [n \in Nodes |-> [funcs |-> 0, kids |-> 0, added |-> 0]]
    /\ added = [n \in Nodes |-> 0]
    /\ doneCalls = [n \in Nodes |-> 0]
    /\ failed = [n \in Nodes |-> <<>>]
    /\ closingFuncs = [n \in Nodes |-> <<>>]
    /\ creg = [n \in Nodes |-> 0]
    /\ sentinel = [n \in Nodes |-> <<>>]
    /\ injected = [n \in Nodes |-> {}]
    /\ ctx = [n \in Nodes |-> "none"]
    /\ started = [n \in Nodes |-> 0]
    /\ atClosing = [n \in Nodes |-> 0]

\* ------------------------------------------------------ sync.WaitGroup
\* closer.AddWaitGroup(1): c.wg.Add(1).
AddWaitGroup(t, n) ==
    /\ CanCall(t, n)
    /\ ncalls' = ncalls + 1
    /\ added[n] < MaxWait
    /\ wg' = [wg EXCEPT ![n] = @ + 1]
    /\ added' = [added EXCEPT ![n] = @ + 1]
    /\ UNCHANGED <<nnodes, parent, twoWay, children, funcs, closingChan,
                   closedChan, closeErr, mutex, stack, panicked>>
    /\ UNCHANGED <<nreg, log, rets, direct, atClose, doneCalls, failed, ctor>>
    /\ UNCHANGED ext

\* Mutant of WgDone: the counter is decremented without the check for a
\* negative value.
WgDone_NoPanic(n) ==
    /\ doneCalls' = [doneCalls EXCEPT ![n] = @ + 1]
    /\ panicked' = panicked
    /\ wg' = [wg EXCEPT ![n] = @ - 1]

\* Mutant of WgDone: Done() leaves a positive counter as it is.
WgDone_NoDecrement(n) ==
    /\ doneCalls' = [doneCalls EXCEPT ![n] = @ + 1]
    /\ IF wg[n] = 0
          THEN panicked' = TRUE /\ wg' = wg
          ELSE panicked' = panicked /\ wg' = wg

\* c.wg.Done(): decrements the counter; a counter that would become
\* negative is a panic, which ends the process.
WgDone(n) ==
    /\ doneCalls' = [doneCalls EXCEPT ![n] = @ + 1]
    /\ IF wg[n] = 0
          THEN panicked' = TRUE /\ wg' = wg
          ELSE panicked' = panicked /\ wg' = [wg EXCEPT ![n] = @ - 1]

\* closer.Done()
Done(t, n) ==
    /\ CanCall(t, n)
    /\ ncalls' = ncalls + 1
    /\ WgDone(n)
    /\ UNCHANGED <<nnodes, parent, twoWay, children, funcs, closingChan,
                   closedChan, closeErr, mutex, stack>>
    /\ UNCHANGED <<nreg, log, rets, direct, atClose, added, failed, ctor>>
    /\ UNCHANGED ext

\* ------------------------------------------------------------- Close
\* A goroutine calls c.Close().
CallClose(t, n) ==
    /\ CanCall(t, n)
    /\ ncalls' = ncalls + 1
    /\ stack' = [stack EXCEPT ![t] = <<Frame("Close", n, "lock", 0, NoNode)>>]
    /\ direct' = direct \cup {n}
    /\ UNCHANGED <<nnodes, parent, twoWay, children, funcs, closingChan,
                   closedChan, closeErr, mutex, wg, panicked>>
    /\ UNCHANGED <<nreg, log, rets, atClose, added, doneCalls, failed, ctor>>
    /\ UNCHANGED ext

\* Mutant of CloseAndDone: the closing channel is closed before the wait
\* group is decremented, so a faulting call leaves the node Closing.
CloseAndDone_SignalsFirst(t, n) ==
    /\ CanCall(t, n)
    /\ ncalls' = ncalls + 1
    /\ WgDone(n)
    /\ closingChan' = [closingChan EXCEPT ![n] = TRUE]
    /\ IF wg[n] = 0
          THEN stack' = stack /\ direct' = direct
          ELSE /\ stack' = [stack EXCEPT
                              ![t] = <<Frame("Close", n, "lock", 0, NoNode)>>]
               /\ direct' = direct \cup {n}
    /\ UNCHANGED <<nnodes, parent, twoWay, children, funcs,
                   closedChan, closeErr, mutex>>
    /\ UNCHANGED <<nreg, log, rets, atClose, added, failed, ctor>>
    /\ UNCHANGED ext

\* closer.CloseAndDone(): c.wg.Done(), then c.Close().
CloseAndDone(t, n) ==
    /\ CanCall(t, n)
    /\ ncalls' = ncalls + 1
    /\ WgDone(n)
    /\ IF wg[n] = 0
          THEN stack' = stack /\ direct' = direct
          ELSE /\ stack' = [stack EXCEPT
                              ![t] = <<Frame("Close", n, "lock", 0, NoNode)>>]
               /\ direct' = direct \cup {n}
    /\ UNCHANGED <<nnodes, parent, twoWay, children, funcs, closingChan,
                   closedChan, closeErr, mutex>>
    /\ UNCHANGED <<nreg, log, rets, atClose, added, failed, ctor>>
    /\ UNCHANGED ext

\* The frame on top of t's stack is a Close frame at the given position.
AtClose(t, pc) ==
    /\ ~panicked /\ Running(t)
    /\ Top(t).op = "Close" /\ Top(t).pc = pc

\* Return from the Close frame on top of t's stack with the value err.
ReturnClose(t, err) ==
    /\ stack' = [stack EXCEPT ![t] = Pop(@)]
    /\ rets' = [rets EXCEPT ![Top(t).c] =
                   @ \cup {[drv |-> Top(t).drv, err |-> err]}]

\* Mutant of CloseLock: IsClosing() is tested before the mutex is taken, so
\* a call arriving during a close returns at once.
CloseLock_CheckFirst(t) ==
    /\ AtClose(t, "lock")
    /\ IF IsClosing(Top(t).c)
         THEN /\ ReturnClose(t, closeErr[Top(t).c])
              /\ mutex' = mutex
         ELSE /\ mutex[Top(t).c] = NoTask
              /\ mutex' = [mutex EXCEPT ![Top(t).c] = t]
              /\ stack' = SetTop(t, [Top(t) EXCEPT !.pc = "check"])
              /\ rets' = rets
    /\ UNCHANGED <<nnodes, parent, twoWay, children, funcs, closingChan,
                   closedChan, closeErr, wg, panicked, ncalls>>
    /\ UNCHANGED <<nreg, log, direct, atClose, added, doneCalls, failed, ctor>>
    /\ UNCHANGED ext

\* c.mutex.Lock()
CloseLock(t) ==
    /\ AtClose(t, "lock")
    /\ mutex[Top(t).c] = NoTask
    /\ mutex' = [mutex EXCEPT ![Top(t).c] = t]
    /\ stack' = SetTop(t, [Top(t) EXCEPT !.pc = "check"])
    /\ UNCHANGED <<nnodes, parent, twoWay, children, funcs, closingChan,
                   closedChan, closeErr, wg, panicked>>
    /\ UNCHANGED hist
    /\ UNCHANGED ext
    /\ UNCHANGED ncalls

\* Mutant of CloseCheck: a call that finds the closer closing returns nil
\* instead of the stored error.
CloseCheck_ReturnsNil(t) ==
    /\ AtClose(t, "check")
    /\ LET c == Top(t).c IN
       IF IsClosing(c)
         THEN /\ mutex' = [mutex EXCEPT ![c] = NoTask]
              /\ ReturnClose(t, <<>>)
              /\ UNCHANGED <<closingChan, atClose>>
         ELSE /\ closingChan' = [closingChan EXCEPT ![c] = TRUE]
              /\ stack' = SetTop(t, [Top(t) EXCEPT !.pc = "children",
                                                    !.i = 1, !.drv = TRUE])
              /\ atClose' = [atClose EXCEPT ![c] =
                               [funcs |-> nreg[c], kids |-> Len(children[c]),
                                added |-> added[c]]]
              /\ UNCHANGED <<mutex, rets>>
    /\ UNCHANGED <<nnodes, parent, twoWay, children, funcs, closedChan,
                   closeErr, wg, panicked>>
    /\ UNCHANGED <<nreg, log, direct, added, doneCalls, failed, ctor>>
    /\ UNCHANGED ext
    /\ UNCHANGED ncalls

\* Mutant of CloseCheck: close(c.closingChan) is missing, the close goes on
\* to the children without the closing signal.
CloseCheck_NoSignal(t) ==
    /\ AtClose(t, "check")
    /\ LET c == Top(t).c IN
       IF IsClosing(c)
         THEN /\ mutex' = [mutex EXCEPT ![c] = NoTask]
              /\ ReturnClose(t, closeErr[c])
              /\ UNCHANGED <<closingChan, atClose>>
         ELSE /\ closingChan' = closingChan
              /\ stack' = SetTop(t, [Top(t) EXCEPT !.pc = "children",
                                                    !.i = 1, !.drv = TRUE])
              /\ atClose' = [atClose EXCEPT ![c] =
                               [funcs |-> nreg[c], kids |-> Len(children[c]),
                                added |-> added[c]]]
              /\ UNCHANGED <<mutex, rets>>
    /\ UNCHANGED <<nnodes, parent, twoWay, children, funcs, closedChan,
                   closeErr, wg, panicked>>
    /\ UNCHANGED <<nreg, log, direct, added, doneCalls, failed, ctor>>
    /\ UNCHANGED ext
    /\ UNCHANGED ncalls

\* if c.IsClosing() { c.mutex.Unlock(); return c.closeErr }
\* close(c.closingChan)
CloseCheck(t) ==
    /\ AtClose(t, "check")
    /\ LET c == Top(t).c IN
       IF IsClosing(c)
         THEN /\ mutex' = [mutex EXCEPT ![c] = NoTask]
              /\ ReturnClose(t, closeErr[c])
              /\ UNCHANGED <<closingChan, atClose>>
         ELSE /\ closingChan' = [closingChan EXCEPT ![c] = TRUE]
              /\ stack' = SetTop(t, [Top(t) EXCEPT !.pc = "children",
                                                    !.i = 1, !.drv = TRUE])
              /\ atClose' = [atClose EXCEPT ![c] =
                               [funcs |-> nreg[c], kids |-> Len(children[c]),
                                added |-> added[c]]]
              /\ UNCHANGED <<mutex, rets>>
    /\ UNCHANGED <<nnodes, parent, twoWay, children, funcs, closedChan,
                   closeErr, wg, panicked>>
    /\ UNCHANGED <<nreg, log, direct, added, doneCalls, failed, ctor>>
    /\ UNCHANGED ext
    /\ UNCHANGED ncalls

\* Mutant of CloseChildren: the child is closed in a goroutine of its own,
\* which the loop does not wait for.
CloseChildren_Async(t) ==
    /\ AtClose(t, "children")
    /\ Top(t).i <= Len(children[Top(t).c])
    /\ stack' = SetTop(t, [Top(t) EXCEPT !.i = @ + 1])
    /\ UNCHANGED <<nnodes, parent, twoWay, children, funcs, closingChan,
                   closedChan, closeErr, mutex, wg, panicked, ncalls>>
    /\ UNCHANGED hist
    /\ UNCHANGED ext

\* Mutant of CloseChildren: the loop goes through the children from the
\* last one to the first.
CloseChildren_Reverse(t) ==
    /\ AtClose(t, "children")
    /\ Top(t).i <= Len(children[Top(t).c])
    /\ stack' = [stack EXCEPT ![t] =
                   Append(Append(Pop(@), [Top(t) EXCEPT !.i = @ + 1]),
                          Frame("Close",
                                children[Top(t).c][Len(children[Top(t).c])
                                                   - Top(t).i + 1],
                                "lock", 0, NoNode))]
    /\ UNCHANGED <<nnodes, parent, twoWay, children, funcs, closingChan,
                   closedChan, closeErr, mutex, wg, panicked>>
    /\ UNCHANGED hist
    /\ UNCHANGED ext
    /\ UNCHANGED ncalls

\* for _, child := range c.children { _ = child.Close() }
CloseChildren(t) ==
    /\ AtClose(t, "children")
    /\ Top(t).i <= Len(children[Top(t).c])
    /\ stack' = [stack EXCEPT ![t] =
                   Append(Append(Pop(@), [Top(t) EXCEPT !.i = @ + 1]),
                          Frame("Close", children[Top(t).c][Top(t).i],
                                "lock", 0, NoNode))]
    /\ UNCHANGED <<nnodes, parent, twoWay, children, funcs, closingChan,
                   closedChan, closeErr, mutex, wg, panicked>>
    /\ UNCHANGED hist
    /\ UNCHANGED ext
    /\ UNCHANGED ncalls

\* Mutant of CloseWait: the closed channel is closed as soon as the wait
\* group has drained, before the close functions run.
CloseWait_SignalsClosed(t) ==
    /\ AtClose(t, "children")
    /\ Top(t).i > Len(children[Top(t).c])
    /\ wg[Top(t).c] = 0
    /\ closedChan' = [closedChan EXCEPT ![Top(t).c] = TRUE]
    /\ stack' = SetTop(t, [Top(t) EXCEPT !.pc = "funcs",
                                          !.i = Len(funcs[Top(t).c])])
    /\ UNCHANGED <<nnodes, parent, twoWay, children, funcs, closingChan,
                   closeErr, mutex, wg, panicked, ncalls>>
    /\ UNCHANGED hist
    /\ UNCHANGED ext

\* Mutant of CloseWait: the loop over the children closes only the first
\* child; the others are left to close on their own.
CloseWait_FirstChildOnly(t) ==
    /\ AtClose(t, "children")
    /\ Top(t).i > Len(children[Top(t).c]) \/ Top(t).i > 1
    /\ wg[Top(t).c] = 0
    /\ stack' = SetTop(t, [Top(t) EXCEPT !.pc = "funcs",
                                          !.i = Len(funcs[Top(t).c])])
    /\ UNCHANGED <<nnodes, parent, twoWay, children, funcs, closingChan,
                   closedChan, closeErr, mutex, wg, panicked, ncalls>>
    /\ UNCHANGED hist
    /\ UNCHANGED ext

\* Mutant of CloseWait: the upward call to a two-way parent is made before
\* the node's own close functions run.
CloseWait_UpFirst(t) ==
    /\ AtClose(t, "children")
    /\ Top(t).i > Len(children[Top(t).c])
    /\ wg[Top(t).c] = 0
    /\ IF /\ twoWay[Top(t).c] /\ parent[Top(t).c] # NoNode
          /\ ~IsClosing(parent[Top(t).c])
         THEN stack' = [stack EXCEPT ![t] =
                  Append(@, Frame("Close", parent[Top(t).c], "lock", 0, NoNode))]
         ELSE stack' = SetTop(t, [Top(t) EXCEPT !.pc = "funcs",
                                                !.i = Len(funcs[Top(t).c])])
    /\ UNCHANGED <<nnodes, parent, twoWay, children, funcs, closingChan,
                   closedChan, closeErr, mutex, wg, panicked, ncalls>>
    /\ UNCHANGED hist
    /\ UNCHANGED ext

\* Mutant of CloseWait: the wait on the wait group is missing.
CloseWait_NoWait(t) ==
    /\ AtClose(t, "children")
    /\ Top(t).i > Len(children[Top(t).c])
    /\ stack' = SetTop(t, [Top(t) EXCEPT !.pc = "funcs",
                                          !.i = Len(funcs[Top(t).c])])
    /\ UNCHANGED <<nnodes, parent, twoWay, children, funcs, closingChan,
                   closedChan, closeErr, mutex, wg, panicked, ncalls>>
    /\ UNCHANGED hist
    /\ UNCHANGED ext

\* c.wg.Wait(), reached when the loop over the children is over.
CloseWait(t) ==
    /\ AtClose(t, "children")
    /\ Top(t).i > Len(children[Top(t).c])
    /\ wg[Top(t).c] = 0
    /\ stack' = SetTop(t, [Top(t) EXCEPT !.pc = "funcs",
                                          !.i = Len(funcs[Top(t).c])])
    /\ UNCHANGED <<nnodes, parent, twoWay, children, funcs, closingChan,
                   closedChan, closeErr, mutex, wg, panicked>>
    /\ UNCHANGED hist
    /\ UNCHANGED ext
    /\ UNCHANGED ncalls

\* Mutant of FuncsLeft: the loop stops one index early (i > 0).
FuncsLeft_OffByOne(i) == i > 1

\* The loop condition i >= 0 of the loop over c.funcs (the model's
\* sequences start at 1).
FuncsLeft(i) == i >= 1

\* Mutant of FuncAt: the functions are called in the order of registration.
FuncAt_FIFO(c, i) == funcs[c][Len(funcs[c]) - i + 1]

\* The function the loop calls at index i: c.funcs[i].
FuncAt(c, i) == funcs[c][i]

\* Mutant of CloseFunc: an error replaces the errors collected so far
\* (mErr = err) instead of being appended to them.
CloseFunc_KeepsLast(t) ==
    /\ AtClose(t, "funcs")
    /\ FuncsLeft(Top(t).i)
    /\ LET c == Top(t).c
           f == FuncAt(c, Top(t).i)
       IN /\ log' = [log EXCEPT ![c] = Append(@, f)]
          /\ \E fails \in BOOLEAN :
                /\ stack' = SetTop(t, [Top(t) EXCEPT
                      !.i = @ - 1,
                      !.mErr = IF fails THEN <<ErrOf(c, f)>> ELSE @])
                /\ failed' = [failed EXCEPT
                      ![c] = IF fails THEN Append(@, f) ELSE @]
    /\ UNCHANGED prog_but_stack
    /\ UNCHANGED <<nreg, rets, direct, atClose, added, doneCalls, ctor>>
    /\ UNCHANGED ext

\* Mutant of CloseFunc: the loop over the functions ends with the first
\* error (mErr = err; break).
CloseFunc_ShortCircuit(t) ==
    /\ AtClose(t, "funcs")
    /\ FuncsLeft(Top(t).i)
    /\ LET c == Top(t).c
           f == FuncAt(c, Top(t).i)
       IN /\ log' = [log EXCEPT ![c] = Append(@, f)]
          /\ \E fails \in BOOLEAN :
                /\ stack' = SetTop(t, [Top(t) EXCEPT
                      !.i = IF fails THEN 0 ELSE @ - 1,
                      !.mErr = IF fails THEN Append(@, ErrOf(c, f)) ELSE @])
                /\ failed' = [failed EXCEPT
                      ![c] = IF fails THEN Append(@, f) ELSE @]
    /\ UNCHANGED prog_but_stack
    /\ UNCHANGED <<nreg, rets, direct, atClose, added, doneCalls, ctor>>
    /\ UNCHANGED ext

\* One iteration of: for i := len(c.funcs) - 1; i >= 0; i-- {
\*     if err := c.funcs[i](); err != nil { mErr = multierror.Append(mErr, err) } }
\* (the model's sequences start at 1).  Whether the function returns an
\* error is its own choice; failed records the functions that did.
CloseFunc(t) ==
    /\ AtClose(t, "funcs")
    /\ FuncsLeft(Top(t).i)
    /\ LET c == Top(t).c
           f == FuncAt(c, Top(t).i)
       IN /\ log' = [log EXCEPT ![c] = Append(@, f)]
          /\ \E fails \in BOOLEAN :
                /\ stack' = SetTop(t, [Top(t) EXCEPT
                      !.i = @ - 1,
                      !.mErr = IF fails THEN Append(@, ErrOf(c, f)) ELSE @])
                /\ failed' = [failed EXCEPT
                      ![c] = IF fails THEN Append(@, f) ELSE @]
    /\ UNCHANGED prog_but_stack
    /\ UNCHANGED <<nreg, rets, direct, atClose, added, doneCalls, ctor>>
    /\ UNCHANGED ext

\* Mutant of CloseFinish: the closing channel is replaced by a fresh one when
\* the close is over, so IsClosing() reads false again.
CloseFinish_ResetsClosing(t) ==
    /\ AtClose(t, "funcs")
    /\ ~FuncsLeft(Top(t).i)
    /\ LET c == Top(t).c IN
          /\ funcs' = [funcs EXCEPT ![c] = <<>>]
          /\ closeErr' = [closeErr EXCEPT
                            ![c] = IF Top(t).mErr # <<>> THEN Top(t).mErr ELSE @]
          /\ closingChan' = [closingChan EXCEPT ![c] = FALSE]
          /\ closedChan' = [closedChan EXCEPT ![c] = TRUE]
          /\ mutex' = [mutex EXCEPT ![c] = NoTask]
    /\ stack' = SetTop(t, [Top(t) EXCEPT !.pc = "up"])
    /\ UNCHANGED <<nnodes, parent, twoWay, children, wg, panicked>>
    /\ UNCHANGED hist
    /\ UNCHANGED ext
    /\ UNCHANGED ncalls

\* Mutant of CloseFinish: c.mutex.Unlock() is missing, the close goes on to
\* the upward call with the mutex held.
CloseFinish_NoUnlock(t) ==
    /\ AtClose(t, "funcs")
    /\ ~FuncsLeft(Top(t).i)
    /\ LET c == Top(t).c IN
          /\ funcs' = [funcs EXCEPT ![c] = <<>>]
          /\ closeErr' = [closeErr EXCEPT
                            ![c] = IF Top(t).mErr # <<>> THEN Top(t).mErr ELSE @]
          /\ IF closedChan[c]
                THEN panicked' = TRUE /\ UNCHANGED closedChan
                ELSE /\ panicked' = panicked
                     /\ closedChan' = [closedChan EXCEPT ![c] = TRUE]
    /\ stack' = SetTop(t, [Top(t) EXCEPT !.pc = "up"])
    /\ UNCHANGED <<nnodes, parent, twoWay, children, closingChan, wg, mutex>>
    /\ UNCHANGED hist
    /\ UNCHANGED ext
    /\ UNCHANGED ncalls

\* c.funcs = nil; if mErr != nil { c.closeErr = mErr }; close(c.closedChan)
\* c.mutex.Unlock()
\* Closing a closed channel is a panic.
CloseFinish(t) ==
    /\ AtClose(t, "funcs")
    /\ ~FuncsLeft(Top(t).i)
    /\ LET c == Top(t).c IN
          /\ funcs' = [funcs EXCEPT ![c] = <<>>]
          /\ closeErr' = [closeErr EXCEPT
                            ![c] = IF Top(t).mErr # <<>> THEN Top(t).mErr ELSE @]
          /\ IF closedChan[c]
                THEN panicked' = TRUE /\ UNCHANGED <<closedChan, mutex>>
                ELSE /\ panicked' = panicked
                     /\ closedChan' = [closedChan EXCEPT ![c] = TRUE]
                     /\ mutex' = [mutex EXCEPT ![c] = NoTask]
    /\ stack' = SetTop(t, [Top(t) EXCEPT !.pc = "up"])
    /\ UNCHANGED <<nnodes, parent, twoWay, children, closingChan, wg>>
    /\ UNCHANGED hist
    /\ UNCHANGED ext
    /\ UNCHANGED ncalls

\* Mutants of ShouldCloseParent: without the test of the parent's closing
\* channel, without the test of the two-way flag, and never.
ShouldCloseParent_NoGuard(c) == twoWay[c] /\ parent[c] # NoNode

ShouldCloseParent_AnyChild(c) == parent[c] # NoNode /\ ~IsClosing(parent[c])

ShouldCloseParent_Never(c) == FALSE

\* Mutant of ShouldCloseParent: the parent's closed channel is tested in
\* place of its closing channel.
ShouldCloseParent_ClosedGuard(c) ==
    twoWay[c] /\ parent[c] # NoNode /\ ~IsClosed(parent[c])

\* The condition c.twoWay && c.parent != nil && !c.parent.IsClosing()
ShouldCloseParent(c) ==
    twoWay[c] /\ parent[c] # NoNode /\ ~IsClosing(parent[c])

\* Mutant of CloseUp: the call returns to its caller before the parent's
\* close is run (go c.parent.Close()).
CloseUp_ReturnsFirst(t) ==
    /\ AtClose(t, "up")
    /\ rets' = [rets EXCEPT ![Top(t).c] =
                   @ \cup {[drv |-> Top(t).drv, err |-> closeErr[Top(t).c]]}]
    /\ IF ShouldCloseParent(Top(t).c)
         THEN stack' = [stack EXCEPT ![t] =
                 Append(Pop(@),
                        Frame("Close", parent[Top(t).c], "lock", 0, NoNode))]
         ELSE stack' = [stack EXCEPT ![t] = Pop(@)]
    /\ UNCHANGED <<nnodes, parent, twoWay, children, funcs, closingChan,
                   closedChan, closeErr, mutex, wg, panicked>>
    /\ UNCHANGED <<nreg, log, direct, atClose, added, doneCalls, failed, ctor>>
    /\ UNCHANGED ext
    /\ UNCHANGED ncalls

\* if c.twoWay && c.parent != nil && !c.parent.IsClosing() {
\*     _ = c.parent.Close() }
\* and, when the condition is false, return c.closeErr
CloseUp(t) ==
    /\ AtClose(t, "up")
    /\ IF ShouldCloseParent(Top(t).c)
         THEN /\ stack' = [stack EXCEPT ![t] =
                    Append(Append(Pop(@), [Top(t) EXCEPT !.pc = "ret"]),
                           Frame("Close", parent[Top(t).c], "lock", 0, NoNode))]
              /\ rets' = rets
         ELSE ReturnClose(t, closeErr[Top(t).c])
    /\ UNCHANGED <<nnodes, parent, twoWay, children, funcs, closingChan,
                   closedChan, closeErr, mutex, wg, panicked>>
    /\ UNCHANGED <<nreg, log, direct, atClose, added, doneCalls, failed, ctor>>
    /\ UNCHANGED ext
    /\ UNCHANGED ncalls

\* return c.closeErr, after c.parent.Close() has returned
CloseReturn(t) ==
    /\ AtClose(t, "ret")
    /\ ReturnClose(t, closeErr[Top(t).c])
    /\ UNCHANGED <<nnodes, parent, twoWay, children, funcs, closingChan,
                   closedChan, closeErr, mutex, wg, panicked>>
    /\ UNCHANGED <<nreg, log, direct, atClose, added, doneCalls, failed, ctor>>
    /\ UNCHANGED ext
    /\ UNCHANGED ncalls

\* ----------------------------------------------------------- OnClose
\* A goroutine calls c.OnClose(f...).
CallOnClose(t, n, fs) ==
    /\ CanCall(t, n)
    /\ ncalls' = ncalls + 1
    /\ nreg[n] + fs <= MaxFuncs
    /\ stack' = [stack EXCEPT ![t] = <<Frame("OnClose", n, "lock", 0, fs)>>]
    /\ UNCHANGED <<nnodes, parent, twoWay, children, funcs, closingChan,
                   closedChan, closeErr, mutex, wg, panicked>>
    /\ UNCHANGED hist
    /\ UNCHANGED ext

\* Mutant of OnClose: a function registered on a closed node is invoked at
\* once.
OnClose_RunsIfClosed(t) ==
    /\ ~panicked /\ Running(t)
    /\ Top(t).op = "OnClose"
    /\ mutex[Top(t).c] = NoTask
    /\ IF IsClosed(Top(t).c)
         THEN /\ log' = [log EXCEPT ![Top(t).c] =
                           @ \o MkFuncs(nreg[Top(t).c], Top(t).arg)]
              /\ funcs' = funcs
         ELSE /\ funcs' = [funcs EXCEPT ![Top(t).c] =
                             @ \o MkFuncs(nreg[Top(t).c], Top(t).arg)]
              /\ log' = log
    /\ nreg' = [nreg EXCEPT ![Top(t).c] = @ + Top(t).arg]
    /\ stack' = [stack EXCEPT ![t] = Pop(@)]
    /\ UNCHANGED <<nnodes, parent, twoWay, children, closingChan,
                   closedChan, closeErr, mutex, wg, panicked>>
    /\ UNCHANGED <<rets, direct, atClose, added, doneCalls, failed, ctor>>
    /\ UNCHANGED ext
    /\ UNCHANGED ncalls

\* Mutant of OnClose: the functions are appended without taking the mutex.
OnClose_NoLock(t) ==
    /\ ~panicked /\ Running(t)
    /\ Top(t).op = "OnClose"
    /\ funcs' = [funcs EXCEPT ![Top(t).c] =
                    @ \o MkFuncs(nreg[Top(t).c], Top(t).arg)]
    /\ nreg' = [nreg EXCEPT ![Top(t).c] = @ + Top(t).arg]
    /\ stack' = [stack EXCEPT ![t] = Pop(@)]
    /\ UNCHANGED <<nnodes, parent, twoWay, children, closingChan,
                   closedChan, closeErr, mutex, wg, panicked>>
    /\ UNCHANGED <<log, rets, direct, atClose, added, doneCalls, failed, ctor>>
    /\ UNCHANGED ext
    /\ UNCHANGED ncalls

\* c.mutex.Lock(); c.funcs = append(c.funcs, f...); c.mutex.Unlock()
OnClose(t) ==
    /\ ~panicked /\ Running(t)
    /\ Top(t).op = "OnClose"
    /\ mutex[Top(t).c] = NoTask
    /\ funcs' = [funcs EXCEPT ![Top(t).c] =
                    @ \o MkFuncs(nreg[Top(t).c], Top(t).arg)]
    /\ nreg' = [nreg EXCEPT ![Top(t).c] = @ + Top(t).arg]
    /\ stack' = [stack EXCEPT ![t] = Pop(@)]
    /\ UNCHANGED <<nnodes, parent, twoWay, children, closingChan,
                   closedChan, closeErr, mutex, wg, panicked>>
    /\ UNCHANGED <<log, rets, direct, atClose, added, doneCalls, failed, ctor>>
    /\ UNCHANGED ext
    /\ UNCHANGED ncalls

\* ---------------------------------------------------- OneWay / TwoWay
\* Mutant of CallAddChild: addChild calls newCloser() without the functions
\* it was given.
CallAddChild_DropsFuncs(t, n, tw, fs) ==
    /\ CanCall(t, n)
    /\ ncalls' = ncalls + 1
    /\ nnodes < MaxNodes
    /\ nnodes' = nnodes + 1
    /\ parent' = [parent EXCEPT ![nnodes + 1] = n]
    /\ twoWay' = [twoWay EXCEPT ![nnodes + 1] = tw]
    /\ funcs' = [funcs EXCEPT ![nnodes + 1] = <<>>]
    /\ nreg' = [nreg EXCEPT ![nnodes + 1] = fs]
    /\ ctor' = [ctor EXCEPT ![nnodes + 1] = fs]
    /\ stack' = [stack EXCEPT
                   ![t] = <<Frame("addChild", n, "lock", 0, nnodes + 1)>>]
    /\ UNCHANGED <<children, closingChan, closedChan, closeErr, mutex, wg,
                   panicked>>
    /\ UNCHANGED <<log, rets, direct, atClose, added, doneCalls, failed>>
    /\ UNCHANGED ext

\* newCloser(f...) with the parent and the flag set: the first half of
\* addChild, up to c.mutex.Lock().
CallAddChild(t, n, tw, fs) ==
    /\ CanCall(t, n)
    /\ ncalls' = ncalls + 1
    /\ nnodes < MaxNodes
    /\ nnodes' = nnodes + 1
    /\ parent' = [parent EXCEPT ![nnodes + 1] = n]
    /\ twoWay' = [twoWay EXCEPT ![nnodes + 1] = tw]
    /\ funcs' = [funcs EXCEPT ![nnodes + 1] = MkFuncs(0, fs)]
    /\ nreg' = [nreg EXCEPT ![nnodes + 1] = fs]
    /\ ctor' = [ctor EXCEPT ![nnodes + 1] = fs]
    /\ stack' = [stack EXCEPT
                   ![t] = <<Frame("addChild", n, "lock", 0, nnodes + 1)>>]
    /\ UNCHANGED <<children, closingChan, closedChan, closeErr, mutex, wg,
                   panicked>>
    /\ UNCHANGED <<log, rets, direct, atClose, added, doneCalls, failed>>
    /\ UNCHANGED ext

\* c.mutex.Lock(); c.children = append(c.children, child); c.mutex.Unlock()
addChild(t) ==
    /\ ~panicked /\ Running(t)
    /\ Top(t).op = "addChild"
    /\ mutex[Top(t).c] = NoTask
    /\ children' = [children EXCEPT ![Top(t).c] = Append(@, Top(t).arg)]
    /\ stack' = [stack EXCEPT ![t] = Pop(@)]
    /\ UNCHANGED <<nnodes, parent, twoWay, funcs, closingChan, closedChan,
                   closeErr, mutex, wg, panicked>>
    /\ UNCHANGED hist
    /\ UNCHANGED ext
    /\ UNCHANGED ncalls

\* closer.OneWay(f...)
OneWay(t, n, fs) == CallAddChild(t, n, FALSE, fs)

\* closer.TwoWay(f...)
TwoWay(t, n, fs) == CallAddChild(t, n, TRUE, fs)

\* ------------------------------------------------------ specification
\* One step of a goroutine inside a method.
Step(t) ==
    \/ CloseLock(t)
    \/ CloseCheck(t)
    \/ CloseChildren(t)
    \/ CloseWait(t)
    \/ CloseFunc(t)
    \/ CloseFinish(t)
    \/ CloseUp(t)
    \/ CloseReturn(t)
    \/ OnClose(t)
    \/ addChild(t)

Next ==
    \/ \E t \in Tasks, n \in Nodes : CallClose(t, n)
    \/ \E t \in Tasks, n \in Nodes : CloseAndDone(t, n)
    \/ \E t \in Tasks, n \in Nodes : AddWaitGroup(t, n)
    \/ \E t \in Tasks, n \in Nodes : Done(t, n)
    \/ \E t \in Tasks, n \in Nodes, fs \in FuncArgs \ {0} : CallOnClose(t, n, fs)
    \/ \E t \in Tasks, n \in Nodes, fs \in FuncArgs : OneWay(t, n, fs)
    \/ \E t \in Tasks, n \in Nodes, fs \in FuncArgs : TwoWay(t, n, fs)
    \/ \E t \in Tasks : Step(t)

Spec == Init /\ [][Next]_vars

\* Balanced use of the wait group: Done and CloseAndDone are only called
\* for a unit that was added, so no goroutine panics.
DoneBalanced(t, n) == wg[n] > 0 /\ Done(t, n)
CloseAndDoneBalanced(t, n) == wg[n] > 0 /\ CloseAndDone(t, n)

NextBalanced ==
    \/ \E t \in Tasks, n \in Nodes : CallClose(t, n)
    \/ \E t \in Tasks, n \in Nodes : CloseAndDoneBalanced(t, n)
    \/ \E t \in Tasks, n \in Nodes : AddWaitGroup(t, n)
    \/ \E t \in Tasks, n \in Nodes : DoneBalanced(t, n)
    \/ \E t \in Tasks, n \in Nodes, fs \in FuncArgs \ {0} : CallOnClose(t, n, fs)
    \/ \E t \in Tasks, n \in Nodes, fs \in FuncArgs : OneWay(t, n, fs)
    \/ \E t \in Tasks, n \in Nodes, fs \in FuncArgs : TwoWay(t, n, fs)
    \/ \E t \in Tasks : Step(t)

\* The scheduler runs every goroutine that can take a step.
Fairness == \A t \in Tasks : WF_vars(Step(t))

FairSpec == Init /\ [][NextBalanced]_vars /\ Fairness

\* No use of the wait group at all: every dependency counter stays zero.
NextNoDeps ==
    \/ \E t \in Tasks, n \in Nodes : CallClose(t, n)
    \/ \E t \in Tasks, n \in Nodes, fs \in FuncArgs \ {0} : CallOnClose(t, n, fs)
    \/ \E t \in Tasks, n \in Nodes, fs \in FuncArgs : OneWay(t, n, fs)
    \/ \E t \in Tasks, n \in Nodes, fs \in FuncArgs : TwoWay(t, n, fs)
    \/ \E t \in Tasks : Step(t)

NoDepsSpec == Init /\ [][NextNoDeps]_vars /\ Fairness

\* ------------------------------------------------------------- workers
\* c.AddWaitGroup(1); go f(c): goroutine t registers one unit on n and
\* starts a worker goroutine that owns it.  The worker blocks in
\* select { case <-c.ClosingChan(): ... }.  Worker goroutines that are not
\* running are interchangeable, so the lowest one is started.
StartWorker(t, n) ==
    /\ CanCall(t, n)
    /\ ncalls' = ncalls + 1
    /\ \E w \in Workers :
          /\ Idle(w)
          /\ \A u \in Workers : u < w => Running(u)
          /\ stack' = [stack EXCEPT
                         ![w] = <<Frame("worker", n, "wait", 0, NoNode)>>]
    /\ wg' = [wg EXCEPT ![n] = @ + 1]
    /\ added' = [added EXCEPT ![n] = @ + 1]
    /\ UNCHANGED <<nnodes, parent, twoWay, children, funcs, closingChan,
                   closedChan, closeErr, mutex, panicked>>
    /\ UNCHANGED <<nreg, log, rets, direct, atClose, doneCalls, failed, ctor>>
    /\ UNCHANGED ext

\* Mutant of WorkerWake: the worker calls Close() before Done().
WorkerWake_CloseFirst(w) ==
    /\ ~panicked /\ Running(w)
    /\ Top(w).op = "worker"
    /\ IsClosing(Top(w).c)
    /\ stack' = [stack EXCEPT
                   ![w] = <<Frame("Close", Top(w).c, "lock", 0, NoNode)>>]
    /\ direct' = direct \cup {Top(w).c}
    /\ UNCHANGED <<nnodes, parent, twoWay, children, funcs, closingChan,
                   closedChan, closeErr, mutex, wg, panicked, ncalls>>
    /\ UNCHANGED <<nreg, log, rets, atClose, added, doneCalls, failed, ctor>>
    /\ UNCHANGED ext

\* case <-c.ClosingChan(): _ = c.CloseAndDone()
\* The worker wakes up when the closing channel is closed, and calls
\* CloseAndDone: c.wg.Done(), then c.Close().
WorkerWake(w) ==
    /\ ~panicked /\ Running(w)
    /\ Top(w).op = "worker"
    /\ IsClosing(Top(w).c)
    /\ WgDone(Top(w).c)
    /\ stack' = [stack EXCEPT
                   ![w] = <<Frame("Close", Top(w).c, "lock", 0, NoNode)>>]
    /\ direct' = direct \cup {Top(w).c}
    /\ UNCHANGED <<nnodes, parent, twoWay, children, funcs, closingChan,
                   closedChan, closeErr, mutex, ncalls>>
    /\ UNCHANGED <<nreg, log, rets, atClose, added, failed, ctor>>
    /\ UNCHANGED ext

\* Every unit of a wait group is owned by a worker: the goroutines call
\* Close, OnClose, OneWay, TwoWay and start workers.
NextWorkers ==
    \/ \E t \in Tasks, n \in Nodes : CallClose(t, n)
    \/ \E t \in Tasks, n \in Nodes : StartWorker(t, n)
    \/ \E t \in Tasks, n \in Nodes, fs \in FuncArgs \ {0} : CallOnClose(t, n, fs)
    \/ \E t \in Tasks, n \in Nodes, fs \in FuncArgs : OneWay(t, n, fs)
    \/ \E t \in Tasks, n \in Nodes, fs \in FuncArgs : TwoWay(t, n, fs)
    \/ \E w \in Workers : WorkerWake(w)
    \/ \E t \in Procs : Step(t)

WorkerFairness ==
    \A t \in Procs : WF_vars(Step(t)) /\ WF_vars(WorkerWake(t))

WorkerSpec == Init /\ [][NextWorkers]_vars /\ WorkerFairness

\* ------------------------------------- a unit released after a child's close
\* go func() { p.AddWaitGroup(1); defer p.CloseAndDone(); c.Close() }()
\* for a two-way child c of p.  The first step: the goroutine registers one
\* unit on p; its frame keeps c, and p in arg.
StartRelease(t, c) ==
    /\ CanCall(t, c)
    /\ ncalls' = ncalls + 1
    /\ twoWay[c] /\ parent[c] # NoNode
    /\ added[parent[c]] < MaxWait
    /\ wg' = [wg EXCEPT ![parent[c]] = @ + 1]
    /\ added' = [added EXCEPT ![parent[c]] = @ + 1]
    /\ stack' = [stack EXCEPT
                   ![t] = <<Frame("release", c, "close", 0, parent[c])>>]
    /\ UNCHANGED <<nnodes, parent, twoWay, children, funcs, closingChan,
                   closedChan, closeErr, mutex, panicked>>
    /\ UNCHANGED <<nreg, log, rets, direct, atClose, doneCalls, failed, ctor>>
    /\ UNCHANGED ext

\* The goroutine t is in the function above, at the given position.
AtRelease(t, pc) ==
    /\ ~panicked /\ Running(t)
    /\ Top(t).op = "release" /\ Top(t).pc = pc

\* c.Close()
ReleaseClose(t) ==
    /\ AtRelease(t, "close")
    /\ stack' = [stack EXCEPT ![t] =
                   <<[Top(t) EXCEPT !.pc = "done"],
                     Frame("Close", Top(t).c, "lock", 0, NoNode)>>]
    /\ direct' = direct \cup {Top(t).c}
    /\ UNCHANGED prog_but_stack
    /\ UNCHANGED <<nreg, log, rets, atClose, added, doneCalls, failed, ctor>>
    /\ UNCHANGED ext

\* The deferred p.CloseAndDone(), run when c.Close() has returned:
\* p.wg.Done(), then p.Close().
ReleaseDone(t) ==
    /\ AtRelease(t, "done")
    /\ WgDone(Top(t).arg)
    /\ stack' = [stack EXCEPT
                   ![t] = <<Frame("Close", Top(t).arg, "lock", 0, NoNode)>>]
    /\ direct' = direct \cup {Top(t).arg}
    /\ UNCHANGED <<nnodes, parent, twoWay, children, funcs, closingChan,
                   closedChan, closeErr, mutex, ncalls>>
    /\ UNCHANGED <<nreg, log, rets, atClose, added, failed, ctor>>
    /\ UNCHANGED ext

\* The wait group is used by such goroutines only.
NextRelease ==
    \/ \E t \in Tasks, n \in Nodes : CallClose(t, n)
    \/ \E t \in Tasks, n \in Nodes : StartRelease(t, n)
    \/ \E t \in Tasks, n \in Nodes, fs \in FuncArgs \ {0} : CallOnClose(t, n, fs)
    \/ \E t \in Tasks, n \in Nodes, fs \in FuncArgs : OneWay(t, n, fs)
    \/ \E t \in Tasks, n \in Nodes, fs \in FuncArgs : TwoWay(t, n, fs)
    \/ \E t \in Tasks : ReleaseClose(t)
    \/ \E t \in Tasks : ReleaseDone(t)
    \/ \E t \in Tasks : Step(t)

ReleaseFairness ==
    \A t \in Tasks : /\ WF_vars(Step(t))
                      /\ WF_vars(ReleaseClose(t))
                      /\ WF_vars(ReleaseDone(t))

ReleaseSpec == Init /\ [][NextRelease]_vars /\ ReleaseFairness

\* ------------------------------- close functions that call the closer
\* A close function is user code: instead of only returning, it may call a
\* method of a closer it holds a reference to.  The loop of Close invokes
\* the function c.funcs[i] (closer.go 205-206), which calls
\* d.OneWay() / d.TwoWay(): the first half of addChild runs, the goroutine
\* then waits for d's mutex.  The function returns when the call returns.
HookAddChild(t, d, tw) ==
    /\ AtClose(t, "funcs")
    /\ FuncsLeft(Top(t).i)
    /\ Published(d)
    /\ ncalls < MaxCalls
    /\ ncalls' = ncalls + 1
    /\ nnodes < MaxNodes
    /\ nnodes' = nnodes + 1
    /\ parent' = [parent EXCEPT ![nnodes + 1] = d]
    /\ twoWay' = [twoWay EXCEPT ![nnodes + 1] = tw]
    /\ LET c == Top(t).c
           f == FuncAt(c, Top(t).i)
       IN /\ log' = [log EXCEPT ![c] = Append(@, f)]
          /\ \E fails \in BOOLEAN :
                /\ stack' = [stack EXCEPT ![t] =
                      Append(Append(Pop(@), [Top(t) EXCEPT
                          !.i = @ - 1,
                          !.mErr = IF fails THEN Append(@, ErrOf(c, f)) ELSE @]),
                        Frame("addChild", d, "lock", 0, nnodes + 1))]
                /\ failed' = [failed EXCEPT
                      ![c] = IF fails THEN Append(@, f) ELSE @]
    /\ UNCHANGED <<children, funcs, closingChan, closedChan, closeErr, mutex,
                   wg, panicked>>
    /\ UNCHANGED <<nreg, rets, direct, atClose, added, doneCalls, ctor>>
    /\ UNCHANGED ext

\* The function c.funcs[i] calls d.Close().
HookClose(t, d) ==
    /\ AtClose(t, "funcs")
    /\ FuncsLeft(Top(t).i)
    /\ Published(d)
    /\ ncalls < MaxCalls
    /\ ncalls' = ncalls + 1
    /\ LET c == Top(t).c
           f == FuncAt(c, Top(t).i)
       IN /\ log' = [log EXCEPT ![c] = Append(@, f)]
          /\ \E fails \in BOOLEAN :
                /\ stack' = [stack EXCEPT ![t] =
                      Append(Append(Pop(@), [Top(t) EXCEPT
                          !.i = @ - 1,
                          !.mErr = IF fails THEN Append(@, ErrOf(c, f)) ELSE @]),
                        Frame("Close", d, "lock", 0, NoNode))]
                /\ failed' = [failed EXCEPT
                      ![c] = IF fails THEN Append(@, f) ELSE @]
    /\ direct' = direct \cup {d}
    /\ UNCHANGED <<nnodes, parent, twoWay, children, funcs, closingChan,
                   closedChan, closeErr, mutex, wg, panicked>>
    /\ UNCHANGED <<nreg, rets, atClose, added, doneCalls, ctor>>
    /\ UNCHANGED ext

\* The goroutines call Close, OnClose, OneWay and TwoWay, the wait groups
\* are not used, and the close functions may call OneWay, TwoWay and Close.
NextHooks ==
    \/ \E t \in Tasks, n \in Nodes : CallClose(t, n)
    \/ \E t \in Tasks, n \in Nodes, fs \in FuncArgs \ {0} : CallOnClose(t, n, fs)
    \/ \E t \in Tasks, n \in Nodes, fs \in FuncArgs : OneWay(t, n, fs)
    \/ \E t \in Tasks, n \in Nodes, fs \in FuncArgs : TwoWay(t, n, fs)
    \/ \E t \in Tasks, d \in Nodes, tw \in BOOLEAN : HookAddChild(t, d, tw)
    \/ \E t \in Tasks, d \in Nodes : HookClose(t, d)
    \/ \E t \in Tasks : Step(t)

HookSpec == Init /\ [][NextHooks]_vars /\ Fairness

\* ------------------------------------------------------------ properties
Allocated == 1..nnodes

\* How often x occurs in the sequence q.
Count(q, x) == Cardinality({k \in 1..Len(q) : q[k] = x})

\* m is c or a descendant of c.
RECURSIVE InSubtree(_, _)
InSubtree(m, c) ==
    IF m = c THEN TRUE
    ELSE IF parent[m] = NoNode THEN FALSE
    ELSE InSubtree(parent[m], c)

Subtree(c) == {m \in Allocated : InSubtree(m, c)}

\* The children attached to p before its close began.
KidsAtClose(p) == {children[p][k] : k \in 1..atClose[p].kids}

\* Units of n's wait group released so far.
Released(n) == added[n] - wg[n]

\* Some dependency counter in the subtree of n is still positive.
PendingBelow(n) == \E m \in Subtree(n) : wg[m] > 0

\* C1: a close function registered on a node before its close began is
\* invoked at most once in the whole run, and exactly once by the time the
\* node is Closed, whatever Close/CloseAndDone calls reach the node.
C1_HooksExactlyOnce ==
    \A n \in Nodes :
        /\ \A id \in 1..nreg[n] : Count(log[n], id) <= 1
        /\ closedChan[n] =>
              \A id \in 1..atClose[n].funcs : Count(log[n], id) = 1

\* C1 witness: a closed node with two functions registered before its close,
\* reached by a driving call and by another call.
C1_Witness ==
    \E n \in Nodes :
        /\ closedChan[n] /\ atClose[n].funcs = 2
        /\ \E r1, r2 \in rets[n] : r1.drv /\ ~r2.drv

C3_ReturnImpliesClosed ==
    \A n \in Nodes : rets[n] # {} => IsClosed(n) /\ IsClosing(n)

\* C3 witness: a call that did not drive the close has returned while the
\* driving call is still inside Close (propagating upwards).
C3_Witness ==
    \E n \in Nodes :
        /\ \E r \in rets[n] : ~r.drv
        /\ \E t \in Tasks : \E k \in 1..Len(stack[t]) :
              stack[t][k].op = "Close" /\ stack[t][k].c = n /\ stack[t][k].drv

\* C4: with all dependency counters zero, every run ends with every
\* goroutine returned from its method calls and with every node that started
\* closing Closed.
C4_DeadlockFree ==
    <>[](/\ \A t \in Tasks : Idle(t)
         /\ \A n \in Nodes : IsClosing(n) => IsClosed(n))

\* C4 witness: a parent and its two-way child are closed from both ends at
\* the same time, by two goroutines that each hold one of the two mutexes.
C4_Witness ==
    \E c \in Allocated :
        /\ twoWay[c] /\ parent[c] # NoNode
        /\ mutex[c] # NoTask /\ mutex[parent[c]] # NoTask
        /\ mutex[c] # mutex[parent[c]]
        /\ {c, parent[c]} \subseteq direct

\* C5: a child attached to P before P's close began is Closed in every state
\* in which P is Closed.
C5_BottomUp ==
    \A p \in Nodes : IsClosed(p) => \A c \in KidsAtClose(p) : IsClosed(c)

\* C5 witness: a closed parent with a one-way and a two-way child.
C5_Witness ==
    \E p \in Nodes :
        /\ IsClosed(p)
        /\ \E c1, c2 \in KidsAtClose(p) : twoWay[c1] /\ ~twoWay[c2]

\* C6: a Close() on a two-way child C leads to its parent P being Closed
\* unless a dependency below P is pending, and P's close functions run only
\* when C is Closed.
C6_TwoWayUp ==
    /\ <>[](\A c \in Nodes :
              (c \in direct /\ twoWay[c])
                 => (IsClosed(parent[c]) \/ PendingBelow(parent[c])))
    /\ [](\A p \in Nodes : \A c \in KidsAtClose(p) :
             (twoWay[c] /\ log[p] # <<>>) => IsClosed(c))

\* C6 witness: Close was called on a two-way child only, and its parent is
\* Closed after running a close function.
C6_Witness ==
    \E c \in Allocated :
        /\ twoWay[c] /\ direct = {c}
        /\ IsClosed(parent[c]) /\ log[parent[c]] # <<>>

\* C7: as long as Close was called only on the one-way child C or on its
\* descendants, C's parent is neither Closing nor Closed.
C7_OneWayNoUp ==
    \A c \in Allocated :
        (parent[c] # NoNode /\ ~twoWay[c] /\ direct \subseteq Subtree(c))
            => ~IsClosing(parent[c]) /\ ~IsClosed(parent[c])

\* C7 witness: a one-way child was closed by a call on it, its parent has
\* close functions that were not run.
C7_Witness ==
    \E c \in Allocated :
        /\ parent[c] # NoNode /\ ~twoWay[c]
        /\ direct # {} /\ direct \subseteq Subtree(c)
        /\ IsClosed(c) /\ funcs[parent[c]] # <<>>

C9_LIFO ==
    \A n \in Nodes :
        /\ \A k \in 1..Len(log[n]) : log[n][k] = atClose[n].funcs - k + 1
        /\ IsClosed(n) => Len(log[n]) = atClose[n].funcs

\* C9 witness: a closed node whose two functions ran, the second one first.
C9_Witness ==
    \E n \in Nodes : IsClosed(n) /\ log[n] = <<2, 1>>

\* C10: the dependency counter is never negative, and a Done() call that
\* found the counter at zero panicked.
C10_DoneFault ==
    \A n \in Nodes :
        /\ wg[n] >= 0
        /\ doneCalls[n] >= Released(n)
        /\ doneCalls[n] > Released(n) => panicked

\* C10 witness: Done() was called on a counter at zero.
C10_Witness ==
    \E n \in Nodes : panicked /\ wg[n] = 0 /\ doneCalls[n] = Released(n) + 1

\* C11: the state of a node only moves forward, Open to Closing to Closed:
\* once IsClosing() is true it stays true, once IsClosed() is true it stays
\* true, and IsClosed() implies IsClosing().
C11_Monotonic ==
    /\ [](\A n \in Nodes : IsClosed(n) => IsClosing(n))
    /\ [][\A n \in Nodes : /\ IsClosing(n) => IsClosing(n)'
                           /\ IsClosed(n) => IsClosed(n)']_vars

\* C11 witness: one node is Closed, another one is Closing and not Closed.
C11_Witness ==
    \E n, m \in Allocated :
        /\ IsClosed(n) /\ rets[n] # {}
        /\ IsClosing(m) /\ ~IsClosed(m)

\* The frame k of goroutine t is the loop over the children in Close, and
\* the frame above it is the child.Close() call the loop has made.
ClosedByParent(t, k) ==
    /\ k + 1 <= Len(stack[t])
    /\ stack[t][k].op = "Close" /\ stack[t][k].pc = "children"
    /\ stack[t][k + 1].op = "Close"
    /\ parent[stack[t][k + 1].c] = stack[t][k].c

\* C12: a child closed by P's propagation begins closing only after P's
\* closing signal fired: during the whole child.Close() call made by P's
\* loop, the child's close functions included, P.IsClosing() is true and
\* P.IsClosed() is false.
C12_TopDownSignal ==
    \A t \in Tasks : \A k \in 1..Len(stack[t]) :
        ClosedByParent(t, k) =>
            IsClosing(stack[t][k].c) /\ ~IsClosed(stack[t][k].c)

\* C12 witness: the close that P's loop started on a child has run one of
\* the child's close functions and is about to run the next.
C12_Witness ==
    \E t \in Tasks : \E k \in 1..Len(stack[t]) :
        /\ ClosedByParent(t, k)
        /\ stack[t][k + 1].pc = "funcs" /\ stack[t][k + 1].i >= 1
        /\ stack[t][k + 1].drv
        /\ log[stack[t][k + 1].c] # <<>>

\* C13: a child spawned with OneWay()/TwoWay() on a parent that is Closing or
\* Closed is closed at once: in no state is a parent Closed while one of the
\* children in its list is still Open.
C13_NoOrphan ==
    \A p \in Allocated :
        IsClosed(p) =>
            \A k \in 1..Len(children[p]) : IsClosing(children[p][k])

\* n belonged to the tree of the root when the close that reached it began.
RECURSIVE InTreeAtClose(_)
InTreeAtClose(n) ==
    IF n = Root THEN TRUE
    ELSE /\ n \in KidsAtClose(parent[n])
         /\ InTreeAtClose(parent[n])

\* C14: when every unit of the wait groups is owned by a worker that waits
\* for the node's closing channel and then calls CloseAndDone(), a Close() on
\* the root leads to a state that lasts, in which every Close() and every
\* worker's CloseAndDone() has returned and all nodes of the tree are Closed.
C14_WorkersTerminate ==
    <>[](Root \in direct =>
            /\ \A t \in Tasks : Idle(t)
            /\ \A w \in Workers :
                  Idle(w) \/ (Top(w).op = "worker" /\ ~InTreeAtClose(Top(w).c))
            /\ \A n \in Allocated : InTreeAtClose(n) => IsClosed(n))

\* C14 witness: the Close() on the root waits for the unit of a worker while
\* the worker of a child is inside CloseAndDone().
C14_Witness ==
    /\ Root \in direct /\ ~IsClosed(Root) /\ wg[Root] > 0
    /\ \E w \in Workers : Running(w) /\ Top(w).op = "worker" /\ Top(w).c = Root
    /\ \E w \in Workers :
          /\ Running(w) /\ Top(w).op = "Close" /\ Top(w).c # Root
          /\ InTreeAtClose(Top(w).c)

\* C15: a goroutine that registers a unit on P, calls Close() on P's two-way
\* child C, and releases the unit with P.CloseAndDone() only when that call
\* has returned: in the end its calls have all returned and P's closed signal
\* has fired.
C15_ReleaseAfterChildClose ==
    <>[](\A p \in Nodes :
            added[p] > 0 => /\ IsClosed(p)
                            /\ \A t \in Tasks : Idle(t))

\* The elements of the sequence q.
Elems(q) == {q[k] : k \in 1..Len(q)}

\* The errors of the aggregate e.
Errors(e) == Elems(e)

\* C16: the error returned by P.Close() contains the errors of the close
\* functions of the children that P's close has closed.
C16_ChildErrors ==
    \A p \in Nodes :
        IsClosed(p) =>
            \A c \in KidsAtClose(p) : Errors(closeErr[c]) \subseteq Errors(closeErr[p])

\* Goroutine t, inside Close() on node c, makes the call d.Close() in this
\* step.
MakesCall(t, c, d) ==
    /\ Running(t) /\ Top(t).op = "Close" /\ Top(t).c = c
    /\ Len(stack'[t]) = Len(stack[t]) + 1
    /\ stack'[t][Len(stack'[t])].op = "Close"
    /\ stack'[t][Len(stack'[t])].c = d

\* C17: a node never holds its own mutex while it invokes a public method of
\* another node: it holds it neither when it calls Close() on one of its
\* children nor when it calls Close() on its parent.
C17_NoLockAcrossCalls ==
    [][\A t \in Tasks : \A c, d \in Nodes :
          MakesCall(t, c, d) => mutex[c] # t]_vars

\* C17 amended: a node does not hold its mutex when it calls Close() on its
\* parent; it does hold it when it calls Close() on one of its children.
C17_NoLockAcrossUpwardCall ==
    [][\A t \in Tasks : \A c, d \in Nodes :
          MakesCall(t, c, d) =>
              IF d = parent[c]
                THEN mutex[c] # t
                ELSE parent[d] = c /\ mutex[c] = t]_vars

\* C17 witness: a two-way child has called Close() on its parent, and the
\* parent, holding its own mutex, has called Close() on that child.
C17_Witness ==
    \E t \in Tasks :
        /\ Len(stack[t]) = 3
        /\ stack[t][1].op = "Close" /\ stack[t][1].pc = "ret"
        /\ stack[t][2].c = parent[stack[t][1].c]
        /\ ClosedByParent(t, 2) /\ stack[t][3].c = stack[t][1].c
        /\ mutex[stack[t][2].c] = t

\* C18: a two-way node never calls Close() on its parent while the parent is
\* inside the critical section of its own Close: the parent that holds its
\* mutex in Close reads Closing, so the upward call is skipped.
C18_UpwardGuard ==
    [][\A t \in Tasks : \A c \in Nodes :
          (parent[c] # NoNode /\ MakesCall(t, c, parent[c]))
              => mutex[parent[c]] = NoTask]_vars

\* C18 amended: a node calls Close() on its parent only if it is two-way,
\* Closed itself, and its IsClosing() check on the parent read false; a
\* parent that holds its mutex in Close reads Closing except between the
\* Lock() and the closing signal of the call that drives its close.
C18_UpwardGuardAmended ==
    /\ [](\A p \in Nodes :
            (mutex[p] # NoTask /\ ~IsClosing(p)) =>
                /\ Top(mutex[p]).op = "Close" /\ Top(mutex[p]).c = p
                /\ Top(mutex[p]).pc = "check")
    /\ [][\A t \in Tasks : \A c \in Nodes :
             (parent[c] # NoNode /\ MakesCall(t, c, parent[c]))
                 => twoWay[c] /\ IsClosed(c) /\ ~IsClosing(parent[c])]_vars

\* C18 witness: a two-way child has called Close() on its parent while
\* another goroutine holds the parent's mutex in Close, before the parent's
\* closing signal.
C18_Witness ==
    \E t, u \in Tasks :
        /\ t # u /\ Len(stack[t]) = 2
        /\ stack[t][1].op = "Close" /\ stack[t][1].pc = "ret"
        /\ stack[t][2].op = "Close" /\ stack[t][2].pc = "lock"
        /\ stack[t][2].c = parent[stack[t][1].c]
        /\ mutex[stack[t][2].c] = u
        /\ ~IsClosing(stack[t][2].c)

\* The functions registered on n after its close began.
LateFuncs(n) == (atClose[n].funcs + 1)..nreg[n]

\* C19: a close function registered with OnClose() after the node's close
\* functions were executed is accepted without fault, the OnClose() call
\* appends it and leaves the process running, and it is never invoked, also
\* not by a later Close() call.
C19_LateHookIgnored ==
    /\ [](\A n \in Nodes :
            IsClosed(n) =>
                /\ Elems(funcs[n]) = LateFuncs(n)
                /\ \A id \in LateFuncs(n) : Count(log[n], id) = 0)
    /\ [][\A t \in Tasks : OnClose(t) => ~panicked']_vars

\* C19 witness: a Close() call has reached a Closed node on which a function
\* was registered after its close.
C19_Witness ==
    \E t \in Tasks :
        /\ AtClose(t, "check")
        /\ IsClosed(Top(t).c)
        /\ LateFuncs(Top(t).c) # {}
        /\ funcs[Top(t).c] # <<>>

\* The aggregate with one entry for each function of n that returned an
\* error, in the order of the calls.
Aggregate(n) == [k \in 1..Len(failed[n]) |-> ErrOf(n, failed[n][k])]

C21_AddChildReturns ==
    <>[](\A t \in Tasks : \A k \in 1..Len(stack[t]) :
            stack[t][k].op # "addChild")

\* C22: a Close() call made while the node is already Closing or Closed, a
\* re-entrant call from one of the node's own close functions included, does
\* not run the close again and returns the stored error: every function ran
\* at most once, every call returned the stored error, and in the end no
\* Close() call on a Closing node is still waiting to enter.
C22_CloseWhileClosing ==
    /\ [](\A n \in Nodes :
            /\ \A id \in 1..nreg[n] : Count(log[n], id) <= 1
            /\ \A r \in rets[n] : r.err = closeErr[n])
    /\ <>[](\A t \in Tasks : \A k \in 1..Len(stack[t]) :
               ~(/\ stack[t][k].op = "Close" /\ stack[t][k].pc = "lock"
                 /\ IsClosing(stack[t][k].c)))

\* The position of the function id in the log of n (0 if it did not run).
PosInLog(n, id) ==
    IF \E k \in 1..Len(log[n]) : log[n][k] = id
      THEN CHOOSE k \in 1..Len(log[n]) : log[n][k] = id
      ELSE 0

\* C23: the close functions passed to New(f...), OneWay(f...) or TwoWay(f...)
\* behave as if registered first with OnClose: on a Closed node each of them
\* has run exactly once, after every function added with OnClose before the
\* close, and its error is part of the aggregate exactly if it returned one.
C23_ConstructorFuncs ==
    \A n \in Nodes :
        IsClosed(n) =>
            \A id \in 1..ctor[n] :
                /\ Count(log[n], id) = 1
                /\ \A later \in (ctor[n] + 1)..atClose[n].funcs :
                      /\ PosInLog(n, later) > 0
                      /\ PosInLog(n, later) < PosInLog(n, id)
                /\ ErrOf(n, id) \in Errors(closeErr[n]) <=> id \in Elems(failed[n])

\* C23 witness: a Closed child created with one function, on which a second
\* function was registered with OnClose; the second ran first, the first
\* returned an error.
C23_Witness ==
    \E n \in Nodes :
        /\ n # Root /\ IsClosed(n) /\ ctor[n] = 1
        /\ log[n] = <<2, 1>> /\ failed[n] = <<1>>
        /\ \E r \in rets[n] : r.err = <<ErrOf(n, 1)>>

\* A close function of n is invoked in this step.
RunsFunc(n) == log'[n] # log[n]

\* C28: within the Close() that drives a node, the closing signal fires
\* before any child begins closing and before any of the node's close
\* functions runs: a child whose close the node's loop drives starts closing
\* with the node Closing, and every close function is invoked with
\* IsClosing() true and IsClosed() false on its own node.
C28_SignalFirst ==
    [][/\ \A n \in Nodes : RunsFunc(n) => IsClosing(n) /\ ~IsClosed(n)
       /\ \A t \in Tasks : \A k \in 1..Len(stack[t]) :
             (/\ ClosedByParent(t, k)
              /\ ~IsClosing(stack[t][k + 1].c)
              /\ IsClosing(stack[t][k + 1].c)')
                 => IsClosing(stack[t][k].c) /\ ~IsClosed(stack[t][k].c)]_vars

\* C28 witness: a node with a child that its loop closed has run its first
\* close function and is about to run the second.
C28_Witness ==
    \E t \in Tasks :
        /\ AtClose(t, "funcs") /\ Top(t).i = 1
        /\ Len(log[Top(t).c]) = 1
        /\ \E c \in KidsAtClose(Top(t).c) : rets[c] # {}
        /\ IsClosing(Top(t).c) /\ ~IsClosed(Top(t).c)

\* C29: no close function of P runs while a child of P is not Closed or
\* while P's counter is positive.
C29_FuncsAfterChildrenAndCounter ==
    [][\A p \in Nodes :
          RunsFunc(p) => /\ \A c \in Elems(children[p]) : IsClosed(c)
                         /\ wg[p] = 0]_vars

\* C29 amended: a close function of P runs only when every child of P is
\* Closed and every unit added to P's counter before the close began has been
\* released; a unit added after wg.Wait() has returned does not hold the
\* functions back.
C29_FuncsAfterChildrenAndDrain ==
    [][\A p \in Nodes :
          RunsFunc(p) => /\ \A c \in Elems(children[p]) : IsClosed(c)
                         /\ Released(p) >= atClose[p].added]_vars

\* C29 witness: P, with a child and a unit added before its close, has run a
\* close function; the unit was released, the child is Closed.
C29_Witness ==
    \E p \in Nodes :
        /\ log[p] # <<>> /\ atClose[p].added > 0 /\ atClose[p].kids > 0
        /\ Released(p) > 0

MaxErrs == 2
Errs == 1..MaxErrs

\* The error value number e, as an element of an aggregated error.
Sent(e) == <<NoNode, e>>

\* The closing hook number k of a node: closing hooks have negative ids, so
\* that log and failed tell them from the close functions.
ClosingId(k) == 0 - k

\* A goroutine calls c.OnClosing(f).
CallOnClosing(t, n) ==
    /\ CanCall(t, n)
    /\ ncalls' = ncalls + 1
    /\ creg[n] < MaxFuncs
    /\ stack' = [stack EXCEPT ![t] = <<Frame("OnClosing", n, "lock", 0, 1)>>]
    /\ UNCHANGED <<nnodes, parent, twoWay, children, funcs, closingChan,
                   closedChan, closeErr, mutex, wg, panicked>>
    /\ UNCHANGED hist
    /\ UNCHANGED ext

\* OnClosing: the hook is appended to the closing hook list inside the
\* critical section of the node.
OnClosing(t) ==
    /\ ~panicked /\ Running(t)
    /\ Top(t).op = "OnClosing"
    /\ mutex[Top(t).c] = NoTask
    /\ closingFuncs' = [closingFuncs EXCEPT
                          ![Top(t).c] = Append(@, ClosingId(creg[Top(t).c] + 1))]
    /\ creg' = [creg EXCEPT ![Top(t).c] = @ + 1]
    /\ stack' = [stack EXCEPT ![t] = Pop(@)]
    /\ UNCHANGED prog_but_stack
    /\ UNCHANGED hist
    /\ UNCHANGED <<sentinel, injected, ctx, started, atClosing>>

\* Mutants of CloseCheckV3: the close goes on to the children without
\* running the closing hooks; the handle of Context() is not canceled with
\* the closing signal.
CloseCheckV3_SkipsHooks(t) ==
    /\ AtClose(t, "check")
    /\ LET c == Top(t).c IN
       IF IsClosing(c)
         THEN /\ mutex' = [mutex EXCEPT ![c] = NoTask]
              /\ ReturnClose(t, closeErr[c])
              /\ UNCHANGED <<closingChan, atClose, ctx, atClosing>>
         ELSE /\ closingChan' = [closingChan EXCEPT ![c] = TRUE]
              /\ ctx' = [ctx EXCEPT ![c] = IF @ = "live" THEN "canceled" ELSE @]
              /\ stack' = SetTop(t, [Top(t) EXCEPT !.pc = "children",
                                                    !.i = 1, !.drv = TRUE])
              /\ atClose' = [atClose EXCEPT ![c] =
                               [funcs |-> nreg[c], kids |-> Len(children[c]),
                                added |-> added[c]]]
              /\ atClosing' = [atClosing EXCEPT ![c] = creg[c]]
              /\ UNCHANGED <<mutex, rets>>
    /\ UNCHANGED <<nnodes, parent, twoWay, children, funcs, closedChan,
                   closeErr, wg, panicked, ncalls>>
    /\ UNCHANGED <<nreg, log, direct, added, doneCalls, failed, ctor>>
    /\ UNCHANGED <<closingFuncs, creg, sentinel, injected, started>>

CloseCheckV3_NoCancel(t) ==
    /\ AtClose(t, "check")
    /\ LET c == Top(t).c IN
       IF IsClosing(c)
         THEN /\ mutex' = [mutex EXCEPT ![c] = NoTask]
              /\ ReturnClose(t, closeErr[c])
              /\ UNCHANGED <<closingChan, atClose, ctx, atClosing>>
         ELSE /\ closingChan' = [closingChan EXCEPT ![c] = TRUE]
              /\ ctx' = ctx
              /\ stack' = SetTop(t, [Top(t) EXCEPT
                            !.pc = "closing", !.i = Len(closingFuncs[c]),
                            !.drv = TRUE])
              /\ atClose' = [atClose EXCEPT ![c] =
                               [funcs |-> nreg[c], kids |-> Len(children[c]),
                                added |-> added[c]]]
              /\ atClosing' = [atClosing EXCEPT ![c] = creg[c]]
              /\ UNCHANGED <<mutex, rets>>
    /\ UNCHANGED <<nnodes, parent, twoWay, children, funcs, closedChan,
                   closeErr, wg, panicked, ncalls>>
    /\ UNCHANGED <<nreg, log, direct, added, doneCalls, failed, ctor>>
    /\ UNCHANGED <<closingFuncs, creg, sentinel, injected, started>>

\* Steps 1 and 2 of the protocol: a node that is Closing or Closed returns
\* its stored error; otherwise the closing signal fires, which cancels the
\* handle of Context(), and the closing hooks are next.
CloseCheckV3(t) ==
    /\ AtClose(t, "check")
    /\ LET c == Top(t).c IN
       IF IsClosing(c)
         THEN /\ mutex' = [mutex EXCEPT ![c] = NoTask]
              /\ ReturnClose(t, closeErr[c])
              /\ UNCHANGED <<closingChan, atClose, ctx, atClosing>>
         ELSE /\ closingChan' = [closingChan EXCEPT ![c] = TRUE]
              /\ ctx' = [ctx EXCEPT ![c] = IF @ = "live" THEN "canceled" ELSE @]
              /\ stack' = SetTop(t, [Top(t) EXCEPT
                            !.pc = "closing", !.i = Len(closingFuncs[c]),
                            !.drv = TRUE])
              /\ atClose' = [atClose EXCEPT ![c] =
                               [funcs |-> nreg[c], kids |-> Len(children[c]),
                                added |-> added[c]]]
              /\ atClosing' = [atClosing EXCEPT ![c] = creg[c]]
              /\ UNCHANGED <<mutex, rets>>
    /\ UNCHANGED <<nnodes, parent, twoWay, children, funcs, closedChan,
                   closeErr, wg, panicked, ncalls>>
    /\ UNCHANGED <<nreg, log, direct, added, doneCalls, failed, ctor>>
    /\ UNCHANGED <<closingFuncs, creg, sentinel, injected, started>>

\* Step 3 of the protocol, one iteration: the closing hooks run in reverse
\* order of registration, their errors are collected.
ClosingFunc(t) ==
    /\ AtClose(t, "closing")
    /\ FuncsLeft(Top(t).i)
    /\ LET c == Top(t).c
           f == closingFuncs[c][Top(t).i]
       IN /\ log' = [log EXCEPT ![c] = Append(@, f)]
          /\ \E fails \in BOOLEAN :
                /\ stack' = SetTop(t, [Top(t) EXCEPT
                      !.i = @ - 1,
                      !.mErr = IF fails THEN Append(@, ErrOf(c, f)) ELSE @])
                /\ failed' = [failed EXCEPT
                      ![c] = IF fails THEN Append(@, f) ELSE @]
    /\ UNCHANGED prog_but_stack
    /\ UNCHANGED <<nreg, rets, direct, atClose, added, doneCalls, ctor>>
    /\ UNCHANGED ext

\* End of step 3: the closing hooks have run, the children are next.
ClosingDone(t) ==
    /\ AtClose(t, "closing")
    /\ ~FuncsLeft(Top(t).i)
    /\ closingFuncs' = [closingFuncs EXCEPT ![Top(t).c] = <<>>]
    /\ stack' = SetTop(t, [Top(t) EXCEPT !.pc = "children", !.i = 1])
    /\ UNCHANGED prog_but_stack
    /\ UNCHANGED hist
    /\ UNCHANGED <<creg, sentinel, injected, ctx, started, atClosing>>

\* Mutant of CloseFinishV3: the injected error is appended to the errors of
\* the hooks instead of being put in front of them.
CloseFinishV3_AppendsSentinel(t) ==
    /\ AtClose(t, "funcs")
    /\ ~FuncsLeft(Top(t).i)
    /\ LET c == Top(t).c
           agg == Top(t).mErr \o sentinel[c]
       IN /\ funcs' = [funcs EXCEPT ![c] = <<>>]
          /\ closeErr' = [closeErr EXCEPT ![c] = IF agg # <<>> THEN agg ELSE @]
          /\ IF closedChan[c]
                THEN panicked' = TRUE /\ UNCHANGED <<closedChan, mutex>>
                ELSE /\ panicked' = panicked
                     /\ closedChan' = [closedChan EXCEPT ![c] = TRUE]
                     /\ mutex' = [mutex EXCEPT ![c] = NoTask]
    /\ stack' = SetTop(t, [Top(t) EXCEPT !.pc = "up"])
    /\ UNCHANGED <<nnodes, parent, twoWay, children, closingChan, wg, ncalls>>
    /\ UNCHANGED hist
    /\ UNCHANGED ext

\* Steps 7 and 8 of the protocol: the aggregated error is stored, the error
\* injected with CloseWithErr in front of the errors of the hooks; the
\* closed signal fires and the critical section is left.
CloseFinishV3(t) ==
    /\ AtClose(t, "funcs")
    /\ ~FuncsLeft(Top(t).i)
    /\ LET c == Top(t).c
           agg == sentinel[c] \o Top(t).mErr
       IN /\ funcs' = [funcs EXCEPT ![c] = <<>>]
          /\ closeErr' = [closeErr EXCEPT ![c] = IF agg # <<>> THEN agg ELSE @]
          /\ IF closedChan[c]
                THEN panicked' = TRUE /\ UNCHANGED <<closedChan, mutex>>
                ELSE /\ panicked' = panicked
                     /\ closedChan' = [closedChan EXCEPT ![c] = TRUE]
                     /\ mutex' = [mutex EXCEPT ![c] = NoTask]
    /\ stack' = SetTop(t, [Top(t) EXCEPT !.pc = "up"])
    /\ UNCHANGED <<nnodes, parent, twoWay, children, closingChan, wg, ncalls>>
    /\ UNCHANGED hist
    /\ UNCHANGED ext

\* The first error injected into a node that is not Closed is kept: the
\* stored error is written once, and the error Close() returns never
\* changes after the closed signal.
Inject(n, e) ==
    sentinel' = [sentinel EXCEPT
                   ![n] = IF @ = <<>> /\ ~IsClosed(n) THEN <<Sent(e)>> ELSE @]

\* c.CloseWithErr(err): the error is injected, then the node is closed.
CloseWithErr(t, n, e) ==
    /\ CanCall(t, n)
    /\ ncalls' = ncalls + 1
    /\ Inject(n, e)
    /\ injected' = [injected EXCEPT ![n] = @ \cup {e}]
    /\ stack' = [stack EXCEPT ![t] = <<Frame("Close", n, "lock", 0, NoNode)>>]
    /\ direct' = direct \cup {n}
    /\ UNCHANGED <<nnodes, parent, twoWay, children, funcs, closingChan,
                   closedChan, closeErr, mutex, wg, panicked>>
    /\ UNCHANGED <<nreg, log, rets, atClose, added, doneCalls, failed, ctor>>
    /\ UNCHANGED <<closingFuncs, creg, ctx, started, atClosing>>

\* Mutant of RunCloserRoutine: the routine is started without the test of
\* the closed signal.
RunCloserRoutine_NoCheck(t, n) ==
    /\ CanCall(t, n)
    /\ ncalls' = ncalls + 1
    /\ \E w \in Workers :
         /\ Idle(w)
         /\ \A u \in Workers : u < w => Running(u)
         /\ stack' = [stack EXCEPT
                        ![w] = <<Frame("routine", n, "run", 0, NoNode)>>]
         /\ wg' = [wg EXCEPT ![n] = @ + 1]
         /\ added' = [added EXCEPT ![n] = @ + 1]
         /\ started' = [started EXCEPT ![n] = @ + 1]
    /\ UNCHANGED <<nnodes, parent, twoWay, children, funcs, closingChan,
                   closedChan, closeErr, mutex, panicked>>
    /\ UNCHANGED <<nreg, log, rets, direct, atClose, doneCalls, failed, ctor>>
    /\ UNCHANGED <<closingFuncs, creg, sentinel, injected, ctx, atClosing>>

\* c.RunCloserRoutine(f): on a closed node nothing happens; otherwise one
\* unit of dependency is registered and f is started as a goroutine of its
\* own, in one atomic step.
RunCloserRoutine(t, n) ==
    /\ CanCall(t, n)
    /\ ncalls' = ncalls + 1
    /\ IF IsClosed(n)
         THEN UNCHANGED <<stack, wg, added, started>>
         ELSE \E w \in Workers :
                 /\ Idle(w)
                 /\ \A u \in Workers : u < w => Running(u)
                 /\ stack' = [stack EXCEPT
                                ![w] = <<Frame("routine", n, "run", 0, NoNode)>>]
                 /\ wg' = [wg EXCEPT ![n] = @ + 1]
                 /\ added' = [added EXCEPT ![n] = @ + 1]
                 /\ started' = [started EXCEPT ![n] = @ + 1]
    /\ UNCHANGED <<nnodes, parent, twoWay, children, funcs, closingChan,
                   closedChan, closeErr, mutex, panicked>>
    /\ UNCHANGED <<nreg, log, rets, direct, atClose, doneCalls, failed, ctor>>
    /\ UNCHANGED <<closingFuncs, creg, sentinel, injected, ctx, atClosing>>

\* The routine f returns: its unit is released; an error it returns (e > 0)
\* is injected into the node, and the node is closed.
RoutineReturn(w) ==
    /\ ~panicked /\ Running(w)
    /\ Top(w).op = "routine"
    /\ WgDone(Top(w).c)
    /\ \E e \in 0..MaxErrs :
         IF e = 0
           THEN /\ stack' = [stack EXCEPT ![w] = <<>>]
                /\ UNCHANGED <<direct, sentinel, injected>>
           ELSE /\ Inject(Top(w).c, e)
                /\ injected' = injected
                /\ stack' = [stack EXCEPT
                     ![w] = <<Frame("Close", Top(w).c, "lock", 0, NoNode)>>]
                /\ direct' = direct \cup {Top(w).c}
    /\ UNCHANGED <<nnodes, parent, twoWay, children, funcs, closingChan,
                   closedChan, closeErr, mutex, ncalls>>
    /\ UNCHANGED <<nreg, log, rets, atClose, added, failed, ctor>>
    /\ UNCHANGED <<closingFuncs, creg, ctx, started, atClosing>>

\* c.Context(): the handle is bound to the closing signal, so a handle
\* taken from a node that is Closing or Closed is canceled from the start.
Context(t, n) ==
    /\ CanCall(t, n)
    /\ ncalls' = ncalls + 1
    /\ ctx' = [ctx EXCEPT ![n] = IF IsClosing(n) THEN "canceled"
                                 ELSE IF @ = "none" THEN "live" ELSE @]
    /\ UNCHANGED <<nnodes, parent, twoWay, children, funcs, closingChan,
                   closedChan, closeErr, mutex, wg, stack, panicked>>
    /\ UNCHANGED hist
    /\ UNCHANGED <<closingFuncs, creg, sentinel, injected, started, atClosing>>

\* One step of goroutine t inside a method of closer/v3.
StepV3(t) ==
    \/ CloseLock(t)
    \/ CloseCheckV3(t)
    \/ ClosingFunc(t)
    \/ ClosingDone(t)
    \/ CloseChildren(t)
    \/ CloseWait(t)
    \/ CloseFunc(t)
    \/ CloseFinishV3(t)
    \/ CloseUp(t)
    \/ CloseReturn(t)
    \/ OnClose(t)
    \/ OnClosing(t)
    \/ addChild(t)

\* Number of method calls in a run of the closer/v3 methods.
MaxCallsV3 == 3

\* The closer/v3 methods: a method call needs the run to have calls left.
NextV3 ==
    \/ \E t \in Tasks, n \in Nodes :
          ncalls < MaxCallsV3 /\ CallClose(t, n)
    \/ \E t \in Tasks, n \in Nodes, e \in Errs :
          ncalls < MaxCallsV3 /\ CloseWithErr(t, n, e)
    \/ \E t \in Tasks, n \in Nodes :
          ncalls < MaxCallsV3 /\ CallOnClose(t, n, 1)
    \/ \E t \in Tasks, n \in Nodes :
          ncalls < MaxCallsV3 /\ CallOnClosing(t, n)
    \/ \E t \in Tasks, n \in Nodes :
          ncalls < MaxCallsV3 /\ RunCloserRoutine(t, n)
    \/ \E t \in Tasks, n \in Nodes :
          ncalls < MaxCallsV3 /\ Context(t, n)
    \/ \E t \in Tasks, n \in Nodes, fs \in FuncArgs :
          ncalls < MaxCallsV3 /\ OneWay(t, n, fs)
    \/ \E t \in Tasks, n \in Nodes, fs \in FuncArgs :
          ncalls < MaxCallsV3 /\ TwoWay(t, n, fs)
    \/ \E w \in Workers : RoutineReturn(w)
    \/ \E t \in Procs : StepV3(t)

V3Spec == Init /\ [][NextV3]_vars

\* The closing hooks and the close functions among the errors of node n.
IsClosingErr(n, x) == x[1] = n /\ x[2] < 0
IsClosedErr(n, x) == x[1] = n /\ x[2] > 0

\* C24: two-phase ordering.  On every node no closing hook (OnClosing) runs
\* after a close function (OnClose) has run, and once the node is Closed
\* every closing hook registered before the closing signal has run exactly
\* once; in the aggregated error no error of a closing hook comes after an
\* error of a close function.
C24_TwoPhases ==
    \A n \in Nodes :
       /\ \A i \in 1..Len(log[n]) : \A j \in (i + 1)..Len(log[n]) :
             ~(log[n][i] > 0 /\ log[n][j] < 0)
       /\ IsClosed(n) =>
             \A k \in 1..atClosing[n] : Count(log[n], ClosingId(k)) = 1
       /\ \A i \in 1..Len(closeErr[n]) : \A j \in (i + 1)..Len(closeErr[n]) :
             ~(IsClosedErr(n, closeErr[n][i]) /\ IsClosingErr(n, closeErr[n][j]))

\* A closed node whose closing hook and close function both ran and both
\* returned an error.
C24_Witness ==
    \E n \in Nodes :
       /\ IsClosed(n)
       /\ \E i \in 1..Len(closeErr[n]) : IsClosingErr(n, closeErr[n][i])
       /\ \E i \in 1..Len(closeErr[n]) : IsClosedErr(n, closeErr[n][i])

RunningRoutines(n) ==
    {w \in Workers : /\ Running(w)
                     /\ stack[w][1].op = "routine"
                     /\ stack[w][1].c = n}

\* C26: RunCloserRoutine(f) on a Closed node starts no routine and
\* registers no dependency; on a node that is not Closed it starts f and
\* registers exactly one dependency, and every routine holds its one unit
\* until it completes: the counter of a node is the number of its running
\* routines.
C26_TrackedRoutine ==
    /\ [](\A n \in Nodes :
            /\ wg[n] = Cardinality(RunningRoutines(n))
            /\ added[n] = started[n]
            /\ doneCalls[n] = started[n] - Cardinality(RunningRoutines(n)))
    /\ [][\A n \in Nodes :
            /\ IsClosed(n) => started'[n] = started[n] /\ added'[n] = added[n]
            /\ started'[n] # started[n] =>
                  /\ started'[n] = started[n] + 1
                  /\ added'[n] = added[n] + 1
                  /\ wg'[n] = wg[n] + 1
                  /\ Cardinality(RunningRoutines(n)') =
                        Cardinality(RunningRoutines(n)) + 1]_vars

\* A closed node whose one routine was started and has completed, its unit
\* released, at the end of a run in which every call has returned.
C26_Witness ==
    \E n \in Nodes :
       /\ IsClosed(n)
       /\ started[n] = 1 /\ doneCalls[n] = 1 /\ wg[n] = 0
       /\ rets[n] # {}
       /\ ncalls = MaxCallsV3
       /\ \A t \in Procs : Idle(t)

C31_NoShortCircuit ==
    /\ [](\A n \in Nodes :
            (IsClosed(n) /\ failed[n] # <<>>) =>
               /\ \A id \in 1..atClose[n].funcs : Count(log[n], id) = 1
               /\ \A c \in KidsAtClose(n) : IsClosed(c))
    /\ <>[](\A n \in Nodes :
              failed[n] # <<>> =>
                 /\ IsClosed(n)
                 /\ (twoWay[n] /\ parent[n] # NoNode) => IsClosed(parent[n]))

\* A two-way child with a child of its own and two functions: the function
\* that ran first failed, the other one ran all the same, and the node, its
\* child and its parent are Closed.
C31_Witness ==
    \E n \in Allocated :
       /\ twoWay[n] /\ parent[n] # NoNode
       /\ log[n] = <<2, 1>> /\ failed[n] = <<2>>
       /\ KidsAtClose(n) # {}
       /\ IsClosed(n) /\ IsClosed(parent[n])
       /\ \A c \in KidsAtClose(n) : IsClosed(c)
       /\ direct = {n}

\* The topmost ancestor of n that is reached through two-way edges only.
RECURSIVE TopOf(_)
TopOf(n) ==
    IF parent[n] # NoNode /\ twoWay[n] THEN TopOf(parent[n]) ELSE n

\* The closure set of a close of n: the subtree of that ancestor.
ClosureSet(n) == Subtree(TopOf(n))

\* C32: as long as Close is called on node n only, no node outside the
\* closure set of n is Closing or Closed; and when every call has returned,
\* the Closed nodes are exactly the nodes of the closure set of n.
C32_ClosureSet ==
    \A n \in Allocated :
       direct = {n} =>
          /\ \A m \in Allocated : IsClosing(m) => m \in ClosureSet(n)
          /\ (rets[n] # {} /\ \A t \in Procs : Idle(t)) =>
                \A m \in ClosureSet(n) : IsClosed(m)

\* A Close on node p has begun: p is Closing, or some goroutine is inside
\* p.Close().
CloseBegun(p) ==
    \/ IsClosing(p)
    \/ \E t \in Procs : \E k \in 1..Len(stack[t]) :
          stack[t][k].op = "Close" /\ stack[t][k].c = p

\* The parent p is Closed and the functions registered on it before its
\* close have run.
ClosedWithFuncs(p) ==
    IsClosed(p) /\ \A id \in 1..atClose[p].funcs : Count(log[p], id) = 1

BlockedOnCounter(n) ==
    \E t \in Procs :
       /\ AtClose(t, "children") /\ Top(t).c = n
       /\ Top(t).i > Len(children[n])
       /\ wg[n] > 0

\* Every unit added to the counter of n has been released with Done().
Matched(n) == added[n] = doneCalls[n]

\* C34: a Close() blocks at the counter of a node only if some unit added
\* to it is not matched by a Done(); and every run ends with every node
\* Closed on which Close() was called and in whose subtree every unit is
\* matched, whether the Done() calls came before the Close() or not.
C34_MatchedDoesNotBlock ==
    /\ [](\A n \in Nodes : BlockedOnCounter(n) => ~Matched(n))
    /\ <>[](\A n \in Allocated :
              (n \in direct /\ \A m \in Subtree(n) : Matched(m)) =>
                 IsClosed(n))

\* A node whose counter was raised and released, one Done() for one unit,
\* and which a Close() has closed with the counter back at zero.
C34_Witness ==
    \E n \in Nodes :
       /\ added[n] = 1 /\ doneCalls[n] = 1 /\ atClose[n].added = 1
       /\ wg[n] = 0 /\ n \in direct
       /\ IsClosed(n) /\ ~panicked

\* The Close frames on node n that fired its closing signal and are still
\* running, as pairs of goroutine and stack position.
DrivingFrames(n) ==
    {<<t, k>> \in Procs \X (1..(MaxNodes + 2)) :
        /\ k <= Len(stack[t])
        /\ stack[t][k].op = "Close" /\ stack[t][k].c = n /\ stack[t][k].drv}

\* C35: no goroutine closes a channel of a node a second time, which would
\* be a panic: at most one Close() call fires the closing signal of a node
\* and goes on to fire its closed signal, and once that call is past the
\* closed signal or has returned no other call takes that part.
C35_SignalsOnce ==
    /\ ~panicked
    /\ \A n \in Nodes :
          /\ Cardinality(DrivingFrames(n)) <= 1
          /\ (\E r \in rets[n] : r.drv) => DrivingFrames(n) = {}
          /\ DrivingFrames(n) # {} => IsClosing(n)

\* A parent and its two-way child, Close called on both: each of them was
\* closed by one call and reached by another one that found it closing.
C35_Witness ==
    \E c \in Allocated :
       /\ twoWay[c] /\ parent[c] # NoNode
       /\ direct = {c, parent[c]}
       /\ IsClosed(c) /\ IsClosed(parent[c])
       /\ \E r1, r2 \in rets[c] : r1.drv /\ ~r2.drv
       /\ \E r1, r2 \in rets[parent[c]] : r1.drv /\ ~r2.drv

\* C36: the loop of P.Close() closes the children in the order of their
\* registration, one after another: in a step in which a child.Close() call
\* made by the loop fires the child's closing signal, every child that was
\* registered on P before that child is Closed.
C36_ChildrenInOrder ==
    [][\A t \in Tasks : \A k \in 1..Len(stack[t]) :
          (/\ ClosedByParent(t, k)
           /\ ~IsClosing(stack[t][k + 1].c)
           /\ IsClosing(stack[t][k + 1].c)')
             => \A i, j \in 1..Len(children[stack[t][k].c]) :
                   (i < j /\ children[stack[t][k].c][j] = stack[t][k + 1].c)
                      => IsClosed(children[stack[t][k].c][i])]_vars

\* Close was called on a parent of two children only: its loop has closed
\* the first child and is inside the Close() of the second one, which is
\* Closing.
C36_Witness ==
    \E t \in Tasks : \E k \in 1..Len(stack[t]) :
       /\ ClosedByParent(t, k)
       /\ direct = {stack[t][k].c}
       /\ Len(children[stack[t][k].c]) = 2
       /\ stack[t][k + 1].c = children[stack[t][k].c][2]
       /\ IsClosing(children[stack[t][k].c][2])
       /\ ~IsClosed(children[stack[t][k].c][2])
       /\ IsClosed(children[stack[t][k].c][1])

\* The state of node n that a close changes: its two signals, its close
\* functions, the functions that ran, its error, and the calls that
\* returned.
CloseState(n) ==
    <<closingChan[n], closedChan[n], funcs[n], log[n], closeErr[n], rets[n]>>

\* C37: a step in which Done() is called on a counter at zero, by
\* CloseAndDone() or by Done(), is a panic that takes no step of a close:
\* no goroutine enters Close(), and the signals, close functions and error
\* of every node are as before; and nothing changes them after the panic.
C37_FaultBeforeClose ==
    [][/\ \A n \in Nodes :
            (doneCalls'[n] # doneCalls[n] /\ wg[n] = 0) =>
               /\ panicked' /\ stack' = stack /\ direct' = direct
               /\ \A m \in Nodes : CloseState(m)' = CloseState(m)
       /\ panicked => \A m \in Nodes : CloseState(m)' = CloseState(m)]_vars

\* A panic on an Open node with a close function: the counter is at zero,
\* one Done() more was called than units were added, no Close() was called.
C37_Witness ==
    \E n \in Nodes :
       /\ panicked /\ wg[n] = 0 /\ added[n] = 0 /\ doneCalls[n] = 1
       /\ ~IsClosing(n) /\ funcs[n] # <<>>
       /\ direct = {}

\* Node n is in the middle of its close: Closing and not yet Closed.
MidClose(n) == IsClosing(n) /\ ~IsClosed(n)

\* C38: no OnClose() call completes on a node that is in the middle of its
\* close, so a call that starts then returns only after the closed signal;
\* and a function registered after the closing signal is on a Closed node
\* and is not invoked.
C38_OnCloseDuringClose ==
    /\ [](\A n \in Nodes :
            IsClosing(n) =>
               /\ LateFuncs(n) # {} => IsClosed(n)
               /\ \A id \in LateFuncs(n) : Count(log[n], id) = 0)
    /\ [][\A t \in Tasks :
            (/\ Running(t) /\ Top(t).op = "OnClose"
             /\ nreg'[Top(t).c] # nreg[Top(t).c])
               => /\ ~MidClose(Top(t).c)
                  /\ UNCHANGED <<closingChan, closedChan>>]_vars

\* An OnClose() call is waiting on a node in the middle of its close, whose
\* Close() holds the mutex and has run a function.
C38_Witness ==
    \E t \in Tasks :
       /\ Running(t) /\ Top(t).op = "OnClose"
       /\ MidClose(Top(t).c)
       /\ mutex[Top(t).c] \notin {NoTask, t}
       /\ log[Top(t).c] # <<>>

====
